---- MODULE Spec2Model ----
(***************************************************************************)
(* DCReminderBot: the reminder / digest scheduling engine of               *)
(* src/cogs/reminders.py over the SQLite store of src/db.py.               *)
(*                                                                         *)
(* Time is epoch seconds.  A string is a sequence of one-character         *)
(* strings.  The store is the two tables projects and reminders plus the   *)
(* per-guild config row; everything else is the state of the running       *)
(* process (the two tasks.loop tasks and the digest cache).                *)
(***************************************************************************)
EXTENDS Integers, Sequences, FiniteSets, TLC

\* ------------------------------------------------------------------ bounds
MaxProjects == 1        \* project rows ever inserted
MaxReminders == 3       \* reminder rows ever inserted
MaxTime == 150          \* seconds of a day the clock runs through
MaxDigestTime == 60     \* the same, where the digest poller is watched
MaxDays == 0            \* days the clock runs through after the first
MaxSlack == 1           \* seconds around each threshold of default_offsets
MaxTokens == 2          \* parts of an offset string

\* ------------------------------------------------------- program constants
day == 86400
hour == 3600
MinLead == 60           \* due_utc <= now_utc + 60 is refused
Margin == 30            \* ts > now_utc + 30
FallbackLead == 300     \* max(due_utc - 300, now_utc + 60)
FallbackDelay == 60
WindowBack == 60        \* window_start = now - 60
WindowAhead == 30       \* window_end = now + 30

Guilds == {1, 2}
Runners == {1, 2}       \* slots for in-flight bodies of _reminder_loop

Max(a, b) == IF a >= b THEN a ELSE b

\* the clock of the first process start: 16:00 UTC of day 0
T0 == 16 * hour
ClockOk(t, h) == (t - T0) % day <= h /\ (t - T0) \div day <= MaxDays

\* ------------------------------------------------------------ parse_offset_str
DigitChars == <<"0", "1", "2", "3", "4", "5", "6", "7", "8", "9">>
IsDigit(c) == \E d \in 1..10 : DigitChars[d] = c
DigitVal(c) == (CHOOSE d \in 1..10 : DigitChars[d] = c) - 1
IsSpace(c) == c \in {" ", "\t", "\n"}

\* str.lower() on the unit letter
Lower(c) ==
  CASE c = "S" -> "s" [] c = "M" -> "m" [] c = "H" -> "h"
    [] c = "D" -> "d" [] c = "W" -> "w" [] OTHER -> c

IsUnit(c) == Lower(c) \in {"s", "m", "h", "d", "w"}

\* {"s": 1, "m": 60, "h": 3600, "d": 86400, "w": 604800}[unit]
mult(u) ==
  CASE u = "s" -> 1 [] u = "m" -> 60 [] u = "h" -> 3600
    [] u = "d" -> 86400 [] u = "w" -> 604800

\* str.split(sep): the parts between the separators, empty parts included
RECURSIVE SplitFrom(_, _, _, _)
SplitFrom(s, sep, i, cur) ==
  IF i > Len(s) THEN <<cur>>
  ELSE IF s[i] = sep THEN <<cur>> \o SplitFrom(s, sep, i + 1, <<>>)
  ELSE SplitFrom(s, sep, i + 1, Append(cur, s[i]))

Split(s, sep) == SplitFrom(s, sep, 1, <<>>)

\* str.strip()
RECURSIVE LStrip(_)
LStrip(p) == IF p # <<>> /\ IsSpace(Head(p)) THEN LStrip(Tail(p)) ELSE p

RECURSIVE RStrip(_)
RStrip(p) ==
  IF p # <<>> /\ IsSpace(p[Len(p)]) THEN RStrip(SubSeq(p, 1, Len(p) - 1)) ELSE p

Strip(p) == LStrip(RStrip(p))

\* the length of the longest prefix of p made of digits
RECURSIVE DigitPrefix(_)
DigitPrefix(p) ==
  IF p # <<>> /\ IsDigit(Head(p)) THEN 1 + DigitPrefix(Tail(p)) ELSE 0

\* int(m.group(1))
RECURSIVE IntOf(_)
IntOf(ds) ==
  IF ds = <<>> THEN 0 ELSE 10 * IntOf(SubSeq(ds, 1, Len(ds) - 1)) + DigitVal(ds[Len(ds)])

\* DURATION_RE.match(p): ^\s*(\d+)\s*([smhdw])\s*$ with re.IGNORECASE
DurationMatch(p) ==
  LET a == LStrip(p)
      n == DigitPrefix(a)
      b == LStrip(SubSeq(a, n + 1, Len(a)))
  IN  IF n >= 1 /\ b # <<>> /\ IsUnit(Head(b)) /\ LStrip(Tail(b)) = <<>>
      THEN [ok |-> TRUE, val |-> IntOf(SubSeq(a, 1, n)), unit |-> Lower(Head(b))]
      ELSE [ok |-> FALSE, val |-> 0, unit |-> ""]

\* the loop over offset_str.split(","): the list out, or the ValueError
RECURSIVE ParseParts(_, _)
ParseParts(parts, out) ==
  IF parts = <<>> THEN [ok |-> TRUE, out |-> out]
  ELSE LET p == Strip(Head(parts))
           m == DurationMatch(p)
       IN  IF p = <<>> THEN ParseParts(Tail(parts), out)
           ELSE IF ~m.ok THEN [ok |-> FALSE, out |-> <<>>]
           ELSE ParseParts(Tail(parts), Append(out, m.val * mult(m.unit)))

SeqToSet(s) == {s[i] : i \in 1..Len(s)}

\* sorted(set(out), reverse=True)
RECURSIVE SortedDesc(_)
SortedDesc(S) ==
  IF S = {} THEN <<>>
  ELSE LET m == CHOOSE x \in S : \A y \in S : y <= x
       IN  <<m>> \o SortedDesc(S \ {m})

parse_offset_str(offset_str) ==
  LET r == ParseParts(Split(offset_str, ","), <<>>)
  IN  IF r.ok THEN [ok |-> TRUE, out |-> SortedDesc(SeqToSet(r.out))]
      ELSE [ok |-> FALSE, out |-> <<>>]

\* ------------------------------------------------------------ default_offsets
\* the last branch with >= in place of >
default_offsets_TenInclusive(now_utc, due_utc) ==
  LET lead == due_utc - now_utc
  IN  IF lead >= 3 * day THEN <<3 * day, 2 * day, day>>
      ELSE IF 2 * day <= lead /\ lead < 3 * day THEN <<day>>
      ELSE IF 12 * hour <= lead /\ lead < 2 * day THEN <<4 * hour>>
      ELSE IF 4 * hour <= lead /\ lead < 12 * hour THEN <<2 * hour>>
      ELSE IF hour <= lead /\ lead < 4 * hour THEN <<hour>>
      ELSE IF 30 * 60 <= lead /\ lead < hour THEN <<30 * 60>>
      ELSE IF lead >= 10 * 60 THEN <<10 * 60>>
      ELSE <<Max(lead - 60, 60)>>

default_offsets(now_utc, due_utc) ==
  LET lead == due_utc - now_utc
  IN  IF lead >= 3 * day THEN <<3 * day, 2 * day, day>>
      ELSE IF 2 * day <= lead /\ lead < 3 * day THEN <<day>>
      ELSE IF 12 * hour <= lead /\ lead < 2 * day THEN <<4 * hour>>
      ELSE IF 4 * hour <= lead /\ lead < 12 * hour THEN <<2 * hour>>
      ELSE IF hour <= lead /\ lead < 4 * hour THEN <<hour>>
      ELSE IF 30 * 60 <= lead /\ lead < hour THEN <<30 * 60>>
      ELSE IF lead > 10 * 60 THEN <<10 * 60>>
      ELSE <<Max(lead - 60, 60)>>


\* ---------------------------------------------------------------- the state
VARIABLES
  now,            \* the wall clock, epoch seconds
  projects,       \* table projects: id -> [guild_id, due_ts]
  reminders,      \* table reminders: id -> [project_id, remind_ts, sent]
  seq_projects,   \* AUTOINCREMENT: the largest project id ever used
  seq_reminders,  \* AUTOINCREMENT: the largest reminder id ever used
  config,         \* table config: guild_id -> row, or NoRow
  rtask,          \* the _reminder_loop task: "running" or "failed"
  rpc,            \* per runner: "idle", or "send" (suspended in the delivery await)
  rrows,          \* per runner: the rows its query returned
  ridx,           \* per runner: the row of rrows being processed, 0 when idle
  rnow,           \* per runner: now of the iteration in progress, 0 when idle
  digest_cache,   \* self._digest_cache: the keys <<guild id, local date>>
  dpc,            \* the _digest_loop body: "idle", "fetch" or "send"
  dnow,           \* now_utc of the digest cycle in progress, 0 when idle
  dguild,         \* the guild the digest cycle is at
  dkey,           \* the key the digest cycle added for that guild
  drows,          \* the project ids of the digest being sent
  attempts,       \* history: reminder id -> deliveries begun in this process
  delivery,       \* history: reminder id -> "none", "pending", the outcome of the
                  \* delivery once the row is marked ("ok", "fail"), or
                  \* "unmarked" when the UPDATE of the except block raised
  digest_sends,   \* history: the digests handed to channel.send in this process
  reply,          \* the answer of the last command (interaction.followup.send),
                  \* "Error" when the handler was left by an exception
  fn              \* a call of default_offsets or parse_offset_str on its own:
                  \* [name, arg, done, out], out being NoOut until it has returned

store_vars == <<projects, reminders, seq_projects, seq_reminders>>
rem_vars == <<rtask, rpc, rrows, ridx, rnow>>
dig_vars == <<digest_cache, dpc, dnow, dguild, dkey, drows>>
rem_hist == <<attempts, delivery>>
vars == <<now, projects, reminders, seq_projects, seq_reminders, config,
          rtask, rpc, rrows, ridx, rnow, digest_cache, dpc, dnow, dguild, dkey, drows,
          attempts, delivery, digest_sends, reply, fn>>

NoRow == [none |-> TRUE]
NoCall == [name |-> "none"]
NoOut == <<>>
RidSpace == 1..MaxReminders
PidSpace == 1..MaxProjects

\* the first process starts on an empty database
InitProgram ==
  /\ now = T0
  /\ projects = <<>>
  /\ reminders = <<>>
  /\ seq_projects = 0
  /\ seq_reminders = 0
  /\ config = [g \in Guilds |-> NoRow]
  /\ rtask = "running"
  /\ rpc = [k \in Runners |-> "idle"]
  /\ rrows = [k \in Runners |-> <<>>]
  /\ ridx = [k \in Runners |-> 0]
  /\ rnow = [k \in Runners |-> 0]
  /\ digest_cache = {}
  /\ dpc = "idle"
  /\ dnow = 0
  /\ dguild = 0
  /\ dkey = <<0, 0>>
  /\ drows = <<>>
  /\ attempts = [r \in RidSpace |-> 0]
  /\ delivery = [r \in RidSpace |-> "none"]
  /\ digest_sends = <<>>
  /\ reply = "none"

Init == InitProgram /\ fn = NoCall

\* ------------------------------------------------------------------- clock
Tick(d, h) ==
  /\ ClockOk(now + d, h)
  /\ now' = now + d
  /\ UNCHANGED <<store_vars, config, rem_vars, dig_vars, fn, rem_hist, digest_sends, reply>>

\* ----------------------------------------------------------- project_create
\* the filter without the 30 seconds: if ts > now_utc
RECURSIVE FilterTs_NoMargin(_, _, _)
FilterTs_NoMargin(offsets, due_utc, now_utc) ==
  IF offsets = <<>> THEN <<>>
  ELSE LET ts == due_utc - Head(offsets)
           rest == FilterTs_NoMargin(Tail(offsets), due_utc, now_utc)
       IN  IF ts > now_utc THEN <<ts>> \o rest ELSE rest

\* for off in offsets: ts = due_utc - off; if ts > now_utc + 30: append
RECURSIVE FilterTs(_, _, _)
FilterTs(offsets, due_utc, now_utc) ==
  IF offsets = <<>> THEN <<>>
  ELSE LET ts == due_utc - Head(offsets)
           rest == FilterTs(Tail(offsets), due_utc, now_utc)
       IN  IF ts > now_utc + Margin THEN <<ts>> \o rest ELSE rest

\* the fallback without the floor now_utc + 60
WithFallback_NoFloor(reminder_ts, due_utc, now_utc) ==
  LET fallback == due_utc - FallbackLead
  IN  IF reminder_ts # <<>> THEN reminder_ts
      ELSE IF fallback < due_utc THEN <<fallback>>
      ELSE <<>>

\* if not reminder_ts: fallback = max(due_utc - 300, now_utc + 60) ...
WithFallback(reminder_ts, due_utc, now_utc) ==
  LET fallback == Max(due_utc - FallbackLead, now_utc + FallbackDelay)
  IN  IF reminder_ts # <<>> THEN reminder_ts
      ELSE IF fallback < due_utc THEN <<fallback>>
      ELSE <<>>

\* the offsets of a command: parse_offset_str(custom_offsets) or default_offsets
NoStr == <<>>
OffsetsOf(custom_offsets, now_utc, due_utc) ==
  IF custom_offsets # NoStr THEN parse_offset_str(custom_offsets)
  ELSE [ok |-> TRUE, out |-> default_offsets(now_utc, due_utc)]

ReminderTs(custom_offsets, now_utc, due_utc) ==
  WithFallback(FilterTs(OffsetsOf(custom_offsets, now_utc, due_utc).out, due_utc, now_utc),
               due_utc, now_utc)

\* db.executemany("INSERT INTO reminders ...", rows): ids seq+1 .. seq+Len(tss)
InsertReminders(tbl, seq, pid, tss) ==
  [r \in (DOMAIN tbl) \cup (seq + 1 .. seq + Len(tss)) |->
     IF r \in DOMAIN tbl THEN tbl[r]
     ELSE [project_id |-> pid, remind_ts |-> tss[r - seq], sent |-> FALSE]]

\* db.execute("INSERT INTO projects ...")
InsertProject(tbl, pid, g, due_utc) ==
  [p \in (DOMAIN tbl) \cup {pid} |->
     IF p = pid THEN [guild_id |-> g, due_ts |-> due_utc] ELSE tbl[p]]

\* the test with < in place of <=
TooSoon_Strict(due_utc, now_utc) == due_utc < now_utc + MinLead

\* if due_utc <= now_utc + 60: "Due time must be at least 1 minute in the future."
TooSoon(due_utc, now_utc) == due_utc <= now_utc + MinLead

\* the returns before the first INSERT: the due time is too close, or
\* parse_offset_str raised ValueError
project_create_refused(g, due_utc, custom_offsets) ==
  /\ TooSoon(due_utc, now) \/ ~OffsetsOf(custom_offsets, now, due_utc).ok
  /\ reply' = IF TooSoon(due_utc, now) THEN "TooSoon" ELSE "InvalidDuration"
  /\ UNCHANGED <<now, store_vars, config, rem_vars, dig_vars, fn, rem_hist, digest_sends>>

\* store_error: executemany raises after db.execute has committed the project
project_create(g, due_utc, custom_offsets, store_error) ==
  LET now_utc == now
      offs == OffsetsOf(custom_offsets, now_utc, due_utc)
      reminder_ts == ReminderTs(custom_offsets, now_utc, due_utc)
      project_id == seq_projects + 1
  IN  IF TooSoon(due_utc, now_utc) \/ ~offs.ok
      THEN project_create_refused(g, due_utc, custom_offsets)
      ELSE
        /\ seq_projects < MaxProjects
        /\ projects' = InsertProject(projects, project_id, g, due_utc)
        /\ seq_projects' = project_id
        /\ IF store_error THEN
             /\ reply' = "Error"
             /\ UNCHANGED <<reminders, seq_reminders>>
           ELSE
             /\ seq_reminders + Len(reminder_ts) <= MaxReminders
             /\ reminders' = InsertReminders(reminders, seq_reminders, project_id,
                                             reminder_ts)
             /\ seq_reminders' = seq_reminders + Len(reminder_ts)
             /\ reply' = "Created"
        /\ UNCHANGED <<now, config, rem_vars, dig_vars, fn, rem_hist, digest_sends>>

\* ------------------------------------------------------ project_add_reminder
\* the lookup by id alone
FindProject_AnyGuild(pid, g) == pid \in DOMAIN projects

\* db.query_one("SELECT * FROM projects WHERE id = ? AND guild_id = ?")
FindProject(pid, g) == pid \in DOMAIN projects /\ projects[pid].guild_id = g

project_add_reminder(g, project_id, offset) ==
  LET offs == parse_offset_str(offset)
      due_utc == projects[project_id].due_ts
      now_utc == now
      inserted == FilterTs(offs.out, due_utc, now_utc)
  IN  /\ IF ~FindProject(project_id, g) THEN
           /\ reply' = "NotFound"
           /\ UNCHANGED <<reminders, seq_reminders>>
         ELSE IF ~offs.ok THEN
           /\ reply' = "InvalidDuration"
           /\ UNCHANGED <<reminders, seq_reminders>>
         ELSE
           /\ seq_reminders + Len(inserted) <= MaxReminders
           /\ reminders' = InsertReminders(reminders, seq_reminders, project_id,
                                           inserted)
           /\ seq_reminders' = seq_reminders + Len(inserted)
           /\ reply' = IF inserted = <<>> THEN "NoValid" ELSE "Added"
      /\ UNCHANGED <<now, projects, seq_projects, config, rem_vars, dig_vars, fn, rem_hist,
                     digest_sends>>

\* ------------------------------------------------------------ project_delete
\* the DELETE on a connection that does not enforce foreign keys
CascadeDelete_Off(tbl, pid) == tbl

\* FOREIGN KEY(project_id) REFERENCES projects(id) ON DELETE CASCADE,
\* with PRAGMA foreign_keys = ON
CascadeDelete(tbl, pid) ==
  [r \in {x \in DOMAIN tbl : tbl[x].project_id # pid} |-> tbl[r]]

project_delete(g, project_id) ==
  /\ IF ~FindProject(project_id, g) THEN
       /\ reply' = "NotFound"
       /\ UNCHANGED <<projects, reminders>>
     ELSE
       /\ projects' = [p \in (DOMAIN projects) \ {project_id} |-> projects[p]]
       /\ reminders' = CascadeDelete(reminders, project_id)
       /\ reply' = "Deleted"
  /\ UNCHANGED <<now, seq_projects, seq_reminders, config, rem_vars, dig_vars, fn,
                 rem_hist, digest_sends>>

\* ------------------------------------------------------------ _reminder_loop
\* the query with the two bounds of BETWEEN exchanged
DueSet_SwappedWindow(t) ==
  {r \in DOMAIN reminders :
     /\ reminders[r].sent = FALSE
     /\ reminders[r].remind_ts >= t + WindowAhead
     /\ reminders[r].remind_ts <= t - WindowBack
     /\ reminders[r].project_id \in DOMAIN projects}

\* the query without "r.sent = 0"
DueSet_IgnoreSent(t) ==
  {r \in DOMAIN reminders :
     /\ reminders[r].remind_ts >= t - WindowBack
     /\ reminders[r].remind_ts <= t + WindowAhead
     /\ reminders[r].project_id \in DOMAIN projects}

\* the query with a window that reaches 120 seconds back
DueSet_WideBack(t) ==
  {r \in DOMAIN reminders :
     /\ reminders[r].sent = FALSE
     /\ reminders[r].remind_ts >= t - 2 * WindowBack
     /\ reminders[r].remind_ts <= t + WindowAhead
     /\ reminders[r].project_id \in DOMAIN projects}

\* a query that catches up: every unsent trigger that has fallen due
DueSet_CatchUp(t) ==
  {r \in DOMAIN reminders :
     /\ reminders[r].sent = FALSE
     /\ reminders[r].remind_ts <= t + WindowAhead
     /\ reminders[r].project_id \in DOMAIN projects}

\* WHERE r.sent = 0 AND r.remind_ts BETWEEN ? AND ?   (JOIN projects p)
DueSet(t) ==
  {r \in DOMAIN reminders :
     /\ reminders[r].sent = FALSE
     /\ reminders[r].remind_ts >= t - WindowBack
     /\ reminders[r].remind_ts <= t + WindowAhead
     /\ reminders[r].project_id \in DOMAIN projects}

\* ORDER BY r.remind_ts ASC (rows of equal remind_ts in id order)
RECURSIVE OrderByTs(_)
OrderByTs(S) ==
  IF S = {} THEN <<>>
  ELSE LET m == CHOOSE x \in S : \A y \in S :
                  \/ reminders[x].remind_ts < reminders[y].remind_ts
                  \/ (reminders[x].remind_ts = reminders[y].remind_ts /\ x <= y)
       IN  <<m>> \o OrderByTs(S \ {m})

\* SELECT r.id as rid, r.project_id, r.remind_ts, ... p.due_ts, p.channel_id
DueRows(t) ==
  LET ids == OrderByTs(DueSet(t))
  IN  [i \in 1..Len(ids) |->
         [rid |-> ids[i], project_id |-> reminders[ids[i]].project_id,
          remind_ts |-> reminders[ids[i]].remind_ts,
          due_ts |-> projects[reminders[ids[i]].project_id].due_ts]]

InFlight(k) == rpc[k] # "idle"

\* a loop that starts an iteration whenever its interval has elapsed
LoopSequential_Overlapping(k) == TRUE

\* tasks.loop runs one body at a time: the next iteration starts only after
\* the previous call of the body has returned
LoopSequential(k) == \A j \in Runners \ {k} : ~InFlight(j)

FreeRunner(k) == ~InFlight(k) /\ \A j \in Runners : j < k => InFlight(j)

\* entering the try block for a row: up to the suspension in fetch_channel / send
BeginRow(rid) ==
  /\ attempts' = [attempts EXCEPT ![rid] = @ + 1]
  /\ delivery' = [delivery EXCEPT ![rid] = "pending"]

\* one iteration starts at clock t: the query, "if not rows: return", the first row
ReminderCycleAt(k, t) ==
  LET rows == DueRows(t)
  IN  /\ rtask = "running"
      /\ FreeRunner(k)
      /\ LoopSequential(k)
      /\ IF rows = <<>> THEN
           UNCHANGED <<rpc, rrows, ridx, rnow, rem_hist>>
         ELSE
           /\ rpc' = [rpc EXCEPT ![k] = "send"]
           /\ rrows' = [rrows EXCEPT ![k] = rows]
           /\ ridx' = [ridx EXCEPT ![k] = 1]
           /\ rnow' = [rnow EXCEPT ![k] = t]
           /\ BeginRow(rows[1].rid)
      /\ UNCHANGED <<store_vars, config, rtask, dig_vars, fn, digest_sends, reply>>

ReminderCycle(k) == ReminderCycleAt(k, now) /\ UNCHANGED now

\* a poller that removes the row it has delivered: DELETE FROM reminders WHERE id = ?
MarkSent_DeleteRow(tbl, rid) ==
  [r \in (DOMAIN tbl) \ {rid} |-> tbl[r]]

\* db.execute("UPDATE reminders SET sent = 1 WHERE id = ?")
MarkSent(tbl, rid) ==
  IF rid \in DOMAIN tbl THEN [tbl EXCEPT ![rid].sent = TRUE] ELSE tbl

\* Does the row get marked, and does an exception leave the for loop?
\* res: the delivery returned ("ok") or raised ("fail");
\* err_try / err_exc: the UPDATE in the try block / in the except block raises
RowMarked_OnlyOnSuccess(res, err_try, err_exc) ==
  res = "ok" /\ (~err_try \/ ~err_exc)

RowMarked(res, err_try, err_exc) ==
  IF res = "ok" THEN ~err_try \/ ~err_exc ELSE ~err_exc

RowEscapes(res, err_try, err_exc) ==
  IF res = "ok" THEN err_try /\ err_exc ELSE err_exc

\* the delivery await of the current row ends; the row is marked; the loop goes
\* on to the next row, returns, or is left by the exception of the except block
ReminderRow(k, res, err_try, err_exc) ==
  LET rid == rrows[k][ridx[k]].rid
      nxt == rrows[k][ridx[k] + 1].rid
  IN  /\ rpc[k] = "send"
      /\ res = "fail" => ~err_try
      /\ err_exc => (res = "fail" \/ err_try)
      /\ reminders' = IF RowMarked(res, err_try, err_exc)
                      THEN MarkSent(reminders, rid) ELSE reminders
      /\ IF RowEscapes(res, err_try, err_exc) THEN
           /\ rtask' = "failed"
           /\ rpc' = [rpc EXCEPT ![k] = "idle"]
           /\ rrows' = [rrows EXCEPT ![k] = <<>>]
           /\ ridx' = [ridx EXCEPT ![k] = 0]
           /\ rnow' = [rnow EXCEPT ![k] = 0]
           /\ attempts' = attempts
           /\ delivery' = [delivery EXCEPT ![rid] = "unmarked"]
         ELSE IF ridx[k] < Len(rrows[k]) THEN
           /\ ridx' = [ridx EXCEPT ![k] = @ + 1]
           /\ attempts' = [attempts EXCEPT ![nxt] = @ + 1]
           /\ delivery' = [delivery EXCEPT ![rid] = res, ![nxt] = "pending"]
           /\ UNCHANGED <<rtask, rpc, rrows, rnow>>
         ELSE
           /\ rpc' = [rpc EXCEPT ![k] = "idle"]
           /\ rrows' = [rrows EXCEPT ![k] = <<>>]
           /\ ridx' = [ridx EXCEPT ![k] = 0]
           /\ rnow' = [rnow EXCEPT ![k] = 0]
           /\ attempts' = attempts
           /\ delivery' = [delivery EXCEPT ![rid] = res]
           /\ UNCHANGED rtask
      /\ UNCHANGED <<now, projects, seq_projects, seq_reminders, config, dig_vars, fn,
                     digest_sends, reply>>

\* ------------------------------------------------------------------ restart
\* a guard that outlives the process (kept in the database)
CacheAtStart_Persisted(cache) == cache

\* __init__ sets no _digest_cache: the first matching cycle of a process finds
\* getattr(self, "_digest_cache", None) is None and begins with set()
CacheAtStart(cache) == {}

\* The process stops (bot.run returns or the process is killed) and a new one
\* starts d seconds later: the database file is kept, RemindersCog.__init__
\* starts both loops anew, _digest_cache does not exist.
Restart(d) ==
  /\ ClockOk(now + d, MaxTime)
  /\ now' = now + d
  /\ rtask' = "running"
  /\ rpc' = [k \in Runners |-> "idle"]
  /\ rrows' = [k \in Runners |-> <<>>]
  /\ ridx' = [k \in Runners |-> 0]
  /\ rnow' = [k \in Runners |-> 0]
  /\ digest_cache' = CacheAtStart(digest_cache)
  /\ dpc' = "idle"
  /\ dnow' = 0
  /\ dguild' = 0
  /\ dkey' = <<0, 0>>
  /\ drows' = <<>>
  /\ attempts' = [r \in RidSpace |-> 0]
  /\ delivery' = [r \in RidSpace |-> "none"]
  /\ digest_sends' = <<>>
  /\ reply' = "none"
  /\ UNCHANGED <<store_vars, config, fn>>

\* ------------------------------------------------------------ parse_timezone
\* "UTC" and "Z" are timezone.utc, a name ZoneInfo does not know falls back to
\* timezone.utc; the zones used here have a fixed offset from UTC
UtcOffset(tz_name) ==
  CASE tz_name = "Asia/Singapore" -> 8 * hour
    [] tz_name = "Asia/Tokyo" -> 9 * hour
    [] OTHER -> 0

\* datetime.strptime(time_hhmm, "%H:%M") accepts the string
ValidHHMM(time_hhmm) ==
  LET parts == Split(time_hhmm, ":")
  IN  /\ Len(parts) = 2
      /\ \A i \in 1..2 : Len(parts[i]) \in {1, 2} /\ DigitPrefix(parts[i]) = Len(parts[i])
      /\ IntOf(parts[1]) <= 23
      /\ IntOf(parts[2]) <= 59

\* digest_h, digest_m = map(int, hhmm.split(":")), 9, 0 when that raises
DigestHM(hhmm) ==
  LET parts == Split(hhmm, ":")
  IN  IF Len(parts) = 2 /\ \A i \in 1..2 : parts[i] # <<>> /\ DigitPrefix(parts[i]) = Len(parts[i])
      THEN <<IntOf(parts[1]), IntOf(parts[2])>>
      ELSE <<9, 0>>

DefaultDigestTime == <<"0", "9", ":", "0", "0">>   \* DEFAULT '09:00'

\* ------------------------------------------------------- deadlines_configure
\* db.upsert_config(guild_id, deadlines_channel_id=..., deadlines_digest_time=...,
\*                  timezone=timezone or the stored timezone or "UTC")
NoTz == ""
deadlines_configure(g, channel, time_hhmm, timezone) ==
  /\ IF ~ValidHHMM(time_hhmm) THEN
       /\ reply' = "InvalidTime"
       /\ UNCHANGED config
     ELSE
       /\ reply' = "Configured"
       /\ config' = [config EXCEPT ![g] =
            [timezone |-> IF timezone # NoTz THEN timezone
                          ELSE IF config[g] # NoRow THEN config[g].timezone
                          ELSE "UTC",
             deadlines_channel_id |-> channel,
             deadlines_digest_time |-> time_hhmm]]
  /\ UNCHANGED <<now, store_vars, rem_vars, dig_vars, fn, rem_hist, digest_sends>>

\* db.upsert_config(guild_id, timezone=timezone); a new row takes the defaults
deadlines_timezone(g, timezone) ==
  /\ config' = [config EXCEPT ![g] =
       IF config[g] # NoRow THEN [config[g] EXCEPT !.timezone = timezone]
       ELSE [timezone |-> timezone, deadlines_channel_id |-> 0,
             deadlines_digest_time |-> DefaultDigestTime]]
  /\ reply' = "TimezoneUpdated"
  /\ UNCHANGED <<now, store_vars, rem_vars, dig_vars, fn, rem_hist, digest_sends>>

\* -------------------------------------------------------------- _digest_loop
LocalHour(t, off) == ((t + off) % day) \div hour
LocalMinute(t, off) == ((t + off) % hour) \div 60
LocalDate(t, off) == (t + off) \div day      \* the day strftime('%Y-%m-%d') names

\* a comparison of the hour alone
DigestMatch_HourOnly(g, t) ==
  LocalHour(t, UtcOffset(config[g].timezone)) = DigestHM(config[g].deadlines_digest_time)[1]

\* if guild_now.hour == digest_h and guild_now.minute == digest_m
DigestMatch(g, t) ==
  LET off == UtcOffset(config[g].timezone)
      hm == DigestHM(config[g].deadlines_digest_time)
  IN  LocalHour(t, off) = hm[1] /\ LocalMinute(t, off) = hm[2]

\* key = f"{guild.id}:{guild_now.strftime('%Y-%m-%d')}"
DigestKey(g, t) == <<g, LocalDate(t, UtcOffset(config[g].timezone))>>

\* the query without "guild_id = ?"
UpcomingSet_AnyGuild(g, t) ==
  {p \in DOMAIN projects :
     /\ projects[p].due_ts >= t
     /\ projects[p].due_ts <= t + 7 * day}

\* SELECT ... FROM projects WHERE guild_id = ? AND due_ts BETWEEN ? AND ?
UpcomingSet(g, t) ==
  {p \in DOMAIN projects :
     /\ projects[p].guild_id = g
     /\ projects[p].due_ts >= t
     /\ projects[p].due_ts <= t + 7 * day}

\* ORDER BY due_ts ASC (rows of equal due_ts in id order)
RECURSIVE OrderByDue(_)
OrderByDue(S) ==
  IF S = {} THEN <<>>
  ELSE LET m == CHOOSE x \in S : \A y \in S :
                  \/ projects[x].due_ts < projects[y].due_ts
                  \/ (projects[x].due_ts = projects[y].due_ts /\ x <= y)
       IN  <<m>> \o OrderByDue(S \ {m})

Upcoming(g, t) == OrderByDue(UpcomingSet(g, t))

LastGuild == CHOOSE g \in Guilds : \A h \in Guilds : h <= g

\* a loop without the debounce
DigestDebounced_Never(key, cache) == FALSE

\* if key in self._digest_cache: continue
DigestDebounced(key, cache) == key \in cache

\* The for loop over bot.guilds from guild g on, up to its next suspension:
\* t is now_utc of the cycle, cache the digest cache, cc[g] whether
\* bot.get_channel finds the channel of g in its cache.
RECURSIVE DigestWalk(_, _, _, _)
DigestWalk(g, t, cache, cc) ==
  IF g > LastGuild
  THEN [pc |-> "idle", guild |-> 0, key |-> <<0, 0>>, cache |-> cache, rows |-> <<>>]
  ELSE IF g \notin Guilds \/ config[g] = NoRow \/ config[g].deadlines_channel_id = 0
       THEN DigestWalk(g + 1, t, cache, cc)
  ELSE IF ~DigestMatch(g, t) THEN DigestWalk(g + 1, t, cache, cc)
  ELSE IF DigestDebounced(DigestKey(g, t), cache) THEN DigestWalk(g + 1, t, cache, cc)
  ELSE LET cache2 == cache \cup {DigestKey(g, t)}
           rows == Upcoming(g, t)
           here == [guild |-> g, key |-> DigestKey(g, t), cache |-> cache2]
       IN  IF ~cc[g] THEN here @@ [pc |-> "fetch", rows |-> <<>>]
           ELSE IF rows = <<>> THEN DigestWalk(g + 1, t, cache2, cc)
           ELSE here @@ [pc |-> "send", rows |-> rows]

\* the loop reaches w: the call of channel.send, if any, goes into the history
\* sends, its outcome open
DigestGotoFrom(w, t, sends) ==
  /\ dpc' = w.pc
  /\ dnow' = IF w.pc = "idle" THEN 0 ELSE t
  /\ dguild' = w.guild
  /\ dkey' = w.key
  /\ drows' = w.rows
  /\ digest_cache' = w.cache
  /\ digest_sends' =
       IF w.pc = "send"
       THEN Append(sends, [guild |-> w.guild, key |-> w.key, at |-> t, res |-> "pending"])
       ELSE sends

DigestGoto(w, t) == DigestGotoFrom(w, t, digest_sends)

\* an except block that takes the key back out of the cache
CacheAfterSend_Rollback(res, cache, key) ==
  IF res = "fail" THEN cache \ {key} ELSE cache

\* except Exception as e: print(...): the cache is as it was before the send
CacheAfterSend(res, cache, key) == cache

\* one iteration starts
DigestCycle(cc) ==
  /\ dpc = "idle"
  /\ DigestGoto(DigestWalk(1, now, digest_cache, cc), now)
  /\ UNCHANGED <<now, store_vars, config, rem_vars, rem_hist, reply, fn>>

\* await bot.fetch_channel(...) ends: the query and the send, or the except block
DigestFetch(res, cc) ==
  LET rows == Upcoming(dguild, dnow)
  IN  /\ dpc = "fetch"
      /\ IF res = "ok" /\ rows # <<>>
         THEN DigestGoto([pc |-> "send", guild |-> dguild, key |-> dkey,
                          cache |-> digest_cache, rows |-> rows], dnow)
         ELSE DigestGoto(DigestWalk(dguild + 1, dnow, digest_cache, cc), dnow)
      /\ UNCHANGED <<now, store_vars, config, rem_vars, rem_hist, reply, fn>>

\* await channel.send(embed=embed) ends, with or without an exception
DigestSend(res, cc) ==
  /\ dpc = "send"
  /\ DigestGotoFrom(DigestWalk(dguild + 1, dnow,
                               CacheAfterSend(res, digest_cache, dkey), cc),
                    dnow,
                    [digest_sends EXCEPT ![Len(digest_sends)].res = res])
  /\ UNCHANGED <<now, store_vars, config, rem_vars, rem_hist, reply, fn>>




\* ------------------------------------------------------------------ inputs
Steps == {30}
Downtimes == {0}

\* custom_offsets / offset strings: "0s", "1m", "2w", "30s, 1M", "5x"
Str0s == <<"0", "s">>
Str1m == <<"1", "m">>
Str2w == <<"2", "w">>
Str30s1M == <<"3", "0", "s", ",", " ", "1", "M">>
Str5x == <<"5", "x">>

\* ------------------------------------------------------------------ actions
Clock == \E d \in Steps : Tick(d, MaxTime)
\* the commands of the guilds G (interaction.guild_id)
CreateBy(G, D, S) == \E g \in G, due \in D, c \in S, e \in BOOLEAN :
                       project_create(g, due, c, e)
AddBy(G, S) == \E g \in G, p \in PidSpace, o \in S : project_add_reminder(g, p, o)
DeleteBy(G) == \E g \in G, p \in PidSpace : project_delete(g, p)
CreateFrom(D, S) == CreateBy(Guilds, D, S)
\* the creations in which both INSERTs go through
CreateOk(D, S) == \E g \in Guilds, due \in D, c \in S : project_create(g, due, c, FALSE)
AddFrom(S) == AddBy(Guilds, S)
Delete == DeleteBy(Guilds)
CycleStart == \E k \in Runners : ReminderCycle(k)
RowDone == \E k \in Runners, res \in {"ok", "fail"}, e1 \in BOOLEAN, e2 \in BOOLEAN :
             ReminderRow(k, res, e1, e2)
ProcessRestart == \E d \in Downtimes : Restart(d)

\* -------------------------------------------- Spec: the reminder poller at work
\* the commands come from one guild: the poller does not look at guild_id
Create == CreateBy({1}, {T0 + 120}, {NoStr})
AddReminder == AddBy({1}, {Str30s1M})
DeleteOwn == DeleteBy({1})

Next ==
  \/ Clock
  \/ Create
  \/ AddReminder
  \/ DeleteOwn
  \/ CycleStart
  \/ RowDone
  \/ ProcessRestart

Spec == Init /\ [][Next]_vars


\* ------------------------------- SpecStore: the commands that write the store
\* due 2 minutes and 3 days 1 minute after the first start; the offsets are the
\* defaults, "0s" (the due instant itself) or "2w" (always in the past)
StoreDues == {T0 + 120, T0 + 3 * day + 60}
StoreCustom == {NoStr, Str0s, Str2w}
CreateAny == CreateFrom(StoreDues, StoreCustom)
AddAny == AddFrom({Str0s, Str30s1M})

NextStore ==
  \/ Clock
  \/ CreateAny
  \/ AddAny
  \/ Delete

SpecStore == Init /\ [][NextStore]_vars

\* ------------------ SpecOffsets: default_offsets and parse_offset_str called
\* the thresholds of default_offsets, and 0, 60, 120, 300 below the last one
LeadMarks == {3 * day, 2 * day, 12 * hour, 4 * hour, hour, 30 * 60, 10 * 60,
              300, 120, 60, 0}
Leads == {m + e : m \in LeadMarks, e \in (0 - MaxSlack)..MaxSlack}
LeadArgs == {<<n, n + l>> : n \in {0, T0}, l \in Leads}

\* "1s", "60s", "1m", "1M", " 2 h ", "1d", "1w", "0s", "5x", ""
OffsetTokens == {<<"1", "s">>, <<"6", "0", "s">>, <<"1", "m">>, <<"1", "M">>,
                 <<" ", "2", " ", "h", " ">>, <<"1", "d">>, <<"1", "w">>,
                 <<"0", "s">>, <<"5", "x">>, <<>>}

\* the strings of 1..n parts joined by ","
RECURSIVE OffsetStrings(_)
OffsetStrings(n) ==
  IF n <= 1 THEN OffsetTokens
  ELSE OffsetTokens \cup
       {str \o <<",">> \o t : str \in OffsetStrings(n - 1), t \in OffsetTokens}

InitOffsets ==
  /\ InitProgram
  /\ fn \in {[name |-> "default_offsets", arg |-> a, done |-> FALSE, out |-> NoOut] :
               a \in LeadArgs}
          \cup {[name |-> "parse_offset_str", arg |-> str, done |-> FALSE, out |-> NoOut] :
                  str \in OffsetStrings(MaxTokens)}

not_fn == <<now, store_vars, config, rem_vars, dig_vars, rem_hist, digest_sends, reply>>

CallDefaultOffsets ==
  /\ fn.name = "default_offsets"
  /\ ~fn.done
  /\ fn' = [fn EXCEPT !.done = TRUE, !.out = default_offsets(fn.arg[1], fn.arg[2])]
  /\ UNCHANGED not_fn

\* out is the list returned, ok is FALSE when ValueError was raised
CallParseOffsetStr ==
  /\ fn.name = "parse_offset_str"
  /\ ~fn.done
  /\ fn' = [fn EXCEPT !.done = TRUE, !.out = parse_offset_str(fn.arg)]
  /\ UNCHANGED not_fn

NextOffsets ==
  \/ CallDefaultOffsets
  \/ CallParseOffsetStr

SpecOffsets == InitOffsets /\ [][NextOffsets]_vars

\* ---------------------------- SpecCmd: the commands and what they answer
\* "1m," ends with an empty part; "5x" has no unit of the table
Str1mComma == <<"1", "m", ",">>
CmdDues == {T0 + 60, T0 + 120}
CmdCustom == {NoStr, Str5x, Str1mComma}
CmdOffsets == {Str30s1M, Str5x}

CreateCmd == CreateFrom(CmdDues, CmdCustom)
AddCmd == AddFrom(CmdOffsets)

NextCmd ==
  \/ Clock
  \/ CreateCmd
  \/ AddCmd
  \/ Delete

SpecCmd == Init /\ [][NextCmd]_vars

\* ------------------------------------------- SpecDigest: the digest poller
\* time_hhmm "16:00" and "00:00"; channel 7
Str1600 == <<"1", "6", ":", "0", "0">>
Str0000 == <<"0", "0", ":", "0", "0">>

DayClock == \E d \in {30, day} : Tick(d, MaxDigestTime)
CreateFar == CreateOk({T0 + 3 * day + 60}, {Str1m})
\* guild 1 moves between 16:00 UTC and 00:00 Asia/Singapore, which are the same
\* minute on different local dates, and 16:00 Asia/Tokyo, which is 07:00 UTC;
\* guild 2 keeps the timezone of its row
ConfigureArgs == {<<1, Str1600, "UTC">>, <<1, Str0000, "Asia/Singapore">>,
                  <<1, Str1600, "Asia/Tokyo">>, <<2, Str1600, NoTz>>}
Configure == \E a \in ConfigureArgs : deadlines_configure(a[1], 7, a[2], a[3])
DigestStart == \E cc \in [Guilds -> BOOLEAN] : DigestCycle(cc)
DigestFetched == \E res \in {"ok", "fail"}, cc \in [Guilds -> BOOLEAN] :
                   DigestFetch(res, cc)
DigestSent == \E res \in {"ok", "fail"}, cc \in [Guilds -> BOOLEAN] :
                DigestSend(res, cc)

NextDigest ==
  \/ DayClock
  \/ CreateFar
  \/ Configure
  \/ DigestStart
  \/ DigestFetched
  \/ DigestSent
  \/ ProcessRestart

SpecDigest == Init /\ [][NextDigest]_vars

\* ------------------------- SpecLive: the reminder loop keeps its 30 seconds
\* @tasks.loop(seconds=30.0): the iteration that starts 30 seconds after the
\* previous one, every delivery having returned within the interval
LoopInterval == 30

PunctualCycle ==
  /\ ClockOk(now + LoopInterval, MaxTime)
  /\ now' = now + LoopInterval
  /\ \E k \in Runners : ReminderCycleAt(k, now + LoopInterval)

CreateNear == CreateBy({1}, {T0 + 120}, {NoStr, Str1m})

NextLive ==
  \/ PunctualCycle
  \/ RowDone
  \/ CreateNear
  \/ AddReminder
  \/ DeleteOwn

SpecLive ==
  Init /\ [][NextLive]_vars /\ WF_vars(PunctualCycle) /\ WF_vars(RowDone)

\* ------------------- SpecDown: the reminder poller across a longer downtime
\* the new process starts at once or 90 seconds after the old one stopped
LongDowntimes == {0, 90}
RestartLate == \E d \in LongDowntimes : Restart(d)

NextDown ==
  \/ Clock
  \/ Create
  \/ AddReminder
  \/ DeleteOwn
  \/ CycleStart
  \/ RowDone
  \/ RestartLate

SpecDown == Init /\ [][NextDown]_vars

\* ------------------- SpecHang: one delivery of the reminder poller never returns
\* "await channel.send(...)" for the trigger with id HungRid stays suspended for
\* ever (the call has no timeout); every other delivery returns or raises, the
\* clock runs and the loop starts an iteration whenever tasks.loop allows one
HungRid == 1

ReturningRow ==
  \E k \in Runners, res \in {"ok", "fail"}, e1 \in BOOLEAN, e2 \in BOOLEAN :
    /\ rpc[k] = "send"
    /\ rrows[k][ridx[k]].rid # HungRid
    /\ ReminderRow(k, res, e1, e2)

NextHang ==
  \/ Clock
  \/ Create
  \/ AddReminder
  \/ DeleteOwn
  \/ CycleStart
  \/ ReturningRow

SpecHang ==
  Init /\ [][NextHang]_vars
       /\ WF_vars(Clock) /\ WF_vars(CycleStart) /\ WF_vars(ReturningRow)

\* ------------------------------- SpecBoth: the two pollers side by side
\* guild 1 has events due 2 minutes after the first start and the digest time
\* 16:00 UTC, the minute of the first start
ConfigureOne == deadlines_configure(1, 7, Str1600, "UTC")

NextBoth ==
  \/ Clock
  \/ Create
  \/ ConfigureOne
  \/ CycleStart
  \/ RowDone
  \/ DigestStart
  \/ DigestFetched
  \/ DigestSent

SpecBoth == Init /\ [][NextBoth]_vars

\* ---------------------- SpecList: the digest over a store that holds events
\* The process starts on a database written by earlier processes: three events,
\* each of guild 1 or 2 and due 30 seconds before the start, at the start, 7 days
\* after it or 7 days and 30 seconds after it, and one trigger per event
\* (custom offset "1m"), marked sent when its instant lies before the start.
ListSize == 3
ListDues == {T0 - 30, T0, T0 + 7 * day, T0 + 7 * day + 30}

InitList ==
  /\ now = T0
  /\ projects \in [1..ListSize -> [guild_id : Guilds, due_ts : ListDues]]
  /\ reminders = [r \in 1..ListSize |->
                    [project_id |-> r, remind_ts |-> projects[r].due_ts - 60,
                     sent |-> projects[r].due_ts - 60 < T0]]
  /\ seq_projects = ListSize
  /\ seq_reminders = ListSize
  /\ config = [g \in Guilds |-> NoRow]
  /\ rtask = "running"
  /\ rpc = [k \in Runners |-> "idle"]
  /\ rrows = [k \in Runners |-> <<>>]
  /\ ridx = [k \in Runners |-> 0]
  /\ rnow = [k \in Runners |-> 0]
  /\ digest_cache = {}
  /\ dpc = "idle"
  /\ dnow = 0
  /\ dguild = 0
  /\ dkey = <<0, 0>>
  /\ drows = <<>>
  /\ attempts = [r \in RidSpace |-> 0]
  /\ delivery = [r \in RidSpace |-> "none"]
  /\ digest_sends = <<>>
  /\ reply = "none"
  /\ fn = NoCall

ListClock == Tick(30, MaxDigestTime)
ConfigureList == \E g \in Guilds : deadlines_configure(g, 7, Str1600, "UTC")

NextList ==
  \/ ListClock
  \/ ConfigureList
  \/ DigestStart
  \/ DigestFetched
  \/ DigestSent

SpecList == InitList /\ [][NextList]_vars

\* --------------- SpecRedo: a restart in the minute of a delivered digest
\* the guilds have the digest time 16:00 UTC; the process is restarted, with a
\* downtime of 0 or 30 seconds, after the digest of guild 1 for the current
\* local date was delivered, and the new process starts inside the matching minute
RedoDowntimes == {0, 30}

RestartAfterDigest ==
  \E d \in RedoDowntimes :
    /\ config[1] # NoRow
    /\ DigestMatch(1, now + d)
    /\ \E i \in 1..Len(digest_sends) :
         digest_sends[i].res = "ok" /\ digest_sends[i].key = DigestKey(1, now + d)
    /\ Restart(d)

NextRedo ==
  \/ ListClock
  \/ CreateFar
  \/ ConfigureList
  \/ DigestStart
  \/ DigestFetched
  \/ DigestSent
  \/ RestartAfterDigest

SpecRedo == Init /\ [][NextRedo]_vars

\* ------------------- SpecEdge: creations around the 60 seconds of the due-time test
\* due 60, 61, 91 and 362 seconds after the first start; the offsets are the
\* defaults, "1m" or "2w" (always filtered out)
EdgeDues == {T0 + 60, T0 + 61, T0 + 91, T0 + 362}
EdgeCustom == {NoStr, Str1m, Str2w}
CreateEdge == CreateFrom(EdgeDues, EdgeCustom)

NextEdge ==
  \/ Clock
  \/ CreateEdge
  \/ Delete

SpecEdge == Init /\ [][NextEdge]_vars

\* ------------ SpecLate: the digest time moved to a later minute of the day
\* guild 1 has the digest time 16:00 UTC, the minute of the first start, and
\* may move it to 16:01; guild 2 has 16:01; events are created at any moment
Str1601 == <<"1", "6", ":", "0", "1">>
LateArgs == {<<1, Str1600, "UTC">>, <<1, Str1601, "UTC">>, <<2, Str1601, NoTz>>}
ConfigureLate == \E a \in LateArgs : deadlines_configure(a[1], 7, a[2], a[3])

\* bot.get_channel finds the channel of guild 1 in its cache, so that a key of
\* guild 1 without a digest comes from an empty query and not from a failed fetch
LateCached == {cc \in [Guilds -> BOOLEAN] : cc[1]}
LateStart == \E cc \in LateCached : DigestCycle(cc)
LateFetched == \E res \in {"ok", "fail"}, cc \in LateCached : DigestFetch(res, cc)
LateSent == \E res \in {"ok", "fail"}, cc \in LateCached : DigestSend(res, cc)

NextLate ==
  \/ ListClock
  \/ CreateFar
  \/ ConfigureLate
  \/ LateStart
  \/ LateFetched
  \/ LateSent

SpecLate == Init /\ [][NextLate]_vars

\* ------------------------------------------------------------------ claims
RowIds(k) == {rrows[k][i].rid : i \in 1..Len(rrows[k])}
InWindow(ts, t) == ts >= t - WindowBack /\ ts <= t + WindowAhead

\* C1: within one process lifetime the delivery of a trigger is begun at most
\* once, however many poll cycles have the trigger inside their window.
C1_AtMostOneDelivery == \A r \in RidSpace : attempts[r] <= 1

\* a cycle is in progress whose window holds a trigger that an earlier cycle of
\* this process delivered and marked; the cycle did not select it
C1_Witness ==
  \E k \in Runners, r \in DOMAIN reminders :
    /\ InFlight(k)
    /\ reminders[r].sent
    /\ attempts[r] = 1
    /\ InWindow(reminders[r].remind_ts, rnow[k])
    /\ r \notin RowIds(k)

\* C2: a trigger whose delivery raised is marked sent by the except block
\* before the loop goes on, and its delivery is not begun a second time.
C2_FailedDeliveryMarked ==
  \A r \in DOMAIN reminders :
    /\ delivery[r] = "fail" => reminders[r].sent
    /\ delivery[r] \in {"fail", "unmarked"} => attempts[r] = 1

\* a failed delivery lies behind, and a later cycle has the trigger in its window
C2_Witness ==
  \E k \in Runners, r \in DOMAIN reminders :
    /\ delivery[r] = "fail"
    /\ InFlight(k)
    /\ InWindow(reminders[r].remind_ts, rnow[k])
    /\ r \notin RowIds(k)

\* C3: no trigger is held by two poll cycles at once: an iteration never reads
\* the pending rows while another one is between its query and its UPDATEs.
C3_NoTriggerClaimedTwice ==
  \A j \in Runners, k \in Runners :
    j # k => ~(InFlight(j) /\ InFlight(k)) /\ RowIds(j) \cap RowIds(k) = {}

\* the interval has elapsed while a cycle is suspended in the delivery of a row
\* that a query made now would return again
C3_Witness ==
  \E k \in Runners :
    /\ InFlight(k)
    /\ now >= rnow[k] + 30
    /\ rrows[k][ridx[k]].rid \in DueSet(now)

\* C5: the sent flag of a stored trigger never goes back to false, a new row is
\* unsent, only the poller's UPDATE for the row it is at sets the flag, and no
\* delivery is begun for a trigger that is marked sent (so none after a restart).
C5_SentStep ==
  /\ \A r \in (DOMAIN reminders) \cap (DOMAIN reminders') :
       /\ reminders[r].sent => reminders'[r].sent
       /\ (~reminders[r].sent /\ reminders'[r].sent) =>
            \E k \in Runners : rpc[k] = "send" /\ rrows[k][ridx[k]].rid = r
       /\ attempts'[r] > attempts[r] => ~reminders[r].sent
  /\ \A r \in (DOMAIN reminders') \ (DOMAIN reminders) :
       r > seq_reminders /\ ~reminders'[r].sent

C5_SentMonotone == [][C5_SentStep]_vars

\* after a restart a cycle has a trigger in its window that an earlier process
\* marked sent, and does not select it
C5_Witness ==
  \E k \in Runners, r \in DOMAIN reminders :
    /\ InFlight(k)
    /\ reminders[r].sent
    /\ attempts[r] = 0
    /\ InWindow(reminders[r].remind_ts, rnow[k])
    /\ r \notin RowIds(k)

\* C6: no failure while a row is processed ends the _reminder_loop task.
C6_PollerSurvives == rtask = "running"


\* C8: every stored trigger fires strictly before the due instant of its event.
C8_FireBeforeDue ==
  \A r \in DOMAIN reminders :
    reminders[r].project_id \in DOMAIN projects =>
      reminders[r].remind_ts < projects[reminders[r].project_id].due_ts

\* C9: a row inserted into reminders, by /project create or by
\* /project add-reminder, has remind_ts > now + 30, now being the clock of the
\* command that inserts it.
C9_InsertStep ==
  \A r \in (DOMAIN reminders') \ (DOMAIN reminders) :
    reminders'[r].remind_ts > now + Margin

C9_InsertedAfterMargin == [][C9_InsertStep]_vars

\* every candidate of a creation was filtered out (custom offset "2w") and the
\* fallback due_utc - 300 was inserted in their place
C9_Witness ==
  \E r \in DOMAIN reminders :
    /\ reminders[r].project_id \in DOMAIN projects
    /\ reminders[r].remind_ts = projects[reminders[r].project_id].due_ts - FallbackLead

\* C10: the store never holds an event without the triggers computed for it
\* (at least one is computed for every event that passes the checks).
C10_EventHasTriggers ==
  \A p \in DOMAIN projects : \E r \in DOMAIN reminders : reminders[r].project_id = p


\* C7: within one process no two digests are handed to channel.send for the
\* same guild and the same local date.
C7_DigestOncePerDate ==
  \A i \in 1..Len(digest_sends), j \in 1..Len(digest_sends) :
    i # j => digest_sends[i].key # digest_sends[j].key

\* a second digest cycle runs later in the matching minute of a guild whose
\* digest of that date was sent by an earlier cycle: it has gone past that guild
\* without a send and is at the next guild
C7_Witness ==
  \E i \in 1..Len(digest_sends) :
    LET g == digest_sends[i].guild
    IN  /\ dpc # "idle"
        /\ dguild > g
        /\ digest_sends[i].at < dnow
        /\ digest_sends[i].at \div 60 = dnow \div 60
        /\ config[g] # NoRow
        /\ config[g].deadlines_channel_id # 0
        /\ DigestMatch(g, dnow)
        /\ DigestKey(g, dnow) = digest_sends[i].key
        /\ UpcomingSet(g, dnow) # {}
        /\ \A j \in 1..Len(digest_sends) : digest_sends[j].key = digest_sends[i].key => j = i


\* C4: while the loop keeps its interval and every delivery returns, every
\* stored trigger that falls due while the clock runs is in the end delivered
\* exactly once and marked sent, unless its event is deleted or the task is
\* ended by a store error first.
LastPoll == T0 + (MaxTime \div LoopInterval) * LoopInterval

C4_Pending(r) ==
  /\ r \in DOMAIN reminders
  /\ reminders[r].remind_ts <= LastPoll + WindowAhead

C4_Settled(r) ==
  \/ r \notin DOMAIN reminders
  \/ rtask = "failed"
  \/ reminders[r].sent /\ attempts[r] = 1 /\ delivery[r] \in {"ok", "fail"}

C4_EveryTriggerFires == \A r \in RidSpace : C4_Pending(r) ~> C4_Settled(r)

\* a trigger was selected by a cycle, delivered once and marked sent
C4_Witness ==
  \E r \in DOMAIN reminders :
    reminders[r].sent /\ attempts[r] = 1 /\ delivery[r] \in {"ok", "fail"}


\* C11: every stored trigger references a stored event; in particular no
\* trigger of a deleted event is left (project ids are never used again).
C11_NoOrphanTrigger ==
  \A r \in DOMAIN reminders : reminders[r].project_id \in DOMAIN projects

\* /project delete has just removed an event together with its triggers, and
\* triggers that were inserted are no longer stored
C11_Witness ==
  /\ reply = "Deleted"
  /\ seq_projects > Cardinality(DOMAIN projects)
  /\ seq_reminders > Cardinality(DOMAIN reminders)


\* C12: /project add-reminder and /project delete of guild g with a project id
\* that is not a project of g answer "Project not found." and leave the rows of
\* projects and reminders as they are.
NotOwned(g, p) == p \notin DOMAIN projects \/ projects[p].guild_id # g

C12_Step ==
  \A g \in Guilds, p \in PidSpace :
    NotOwned(g, p) =>
      /\ \A o \in CmdOffsets :
           project_add_reminder(g, p, o) =>
             reply' = "NotFound" /\ UNCHANGED <<projects, reminders>>
      /\ project_delete(g, p) =>
           reply' = "NotFound" /\ UNCHANGED <<projects, reminders>>

C12_ForeignIdNotFound == [][C12_Step]_vars

\* a command was answered "Project not found." while the store holds an event
\* with triggers: the event of another guild
C12_Witness ==
  /\ reply = "NotFound"
  /\ \E p \in DOMAIN projects : \E r \in DOMAIN reminders : reminders[r].project_id = p


\* C13: a key is added to the digest cache, and a digest is handed to
\* channel.send, only for a guild whose local hour and minute at now_utc of the
\* cycle equal the digest time of the config row the cycle read; a send that
\* follows the fetch of the channel belongs to the cycle that added the key.
CycleNow == IF dpc = "idle" THEN now ELSE dnow

MinuteOfDay(t, off) == ((t + off) % day) \div 60

AtDigestMinute(g, t) ==
  /\ config[g] # NoRow
  /\ MinuteOfDay(t, UtcOffset(config[g].timezone)) =
       60 * DigestHM(config[g].deadlines_digest_time)[1]
         + DigestHM(config[g].deadlines_digest_time)[2]

C13_Step ==
  /\ \A key \in digest_cache' \ digest_cache : AtDigestMinute(key[1], CycleNow)
  /\ Len(digest_sends') > Len(digest_sends) =>
       LET e == digest_sends'[Len(digest_sends')]
       IN  /\ e.at = CycleNow
           /\ e.key \in digest_cache'
           /\ e.key \in digest_cache => (dpc = "fetch" /\ e.key = dkey /\ e.guild = dguild)

C13_OnlyAtDigestMinute == [][C13_Step]_vars

\* a cycle is at guild 2 and has gone past guild 1, which has a digest channel
\* and an upcoming event but another local minute: nothing was sent for guild 1
\* and no key of guild 1 was added
C13_Witness ==
  /\ dpc # "idle"
  /\ dguild = 2
  /\ config[1] # NoRow
  /\ config[1].deadlines_channel_id # 0
  /\ UpcomingSet(1, dnow) # {}
  /\ ~AtDigestMinute(1, dnow)
  /\ \A key \in digest_cache : key[1] # 1
  /\ \A i \in 1..Len(digest_sends) : digest_sends[i].guild # 1


\* C14: a digest whose channel.send raised leaves its (guild, local date) key
\* in the digest cache, and no other digest of this process carries that key.
C14_FailedDigestStaysGuarded ==
  \A i \in 1..Len(digest_sends) :
    digest_sends[i].res = "fail" =>
      /\ digest_sends[i].key \in digest_cache
      /\ \A j \in 1..Len(digest_sends) : j # i => digest_sends[j].key # digest_sends[i].key

\* the digest of a guild failed, and a later cycle in the same matching minute,
\* with the guild's config and events still calling for a digest, has gone past
\* the guild without a send
C14_Witness ==
  \E i \in 1..Len(digest_sends) :
    LET g == digest_sends[i].guild
    IN  /\ digest_sends[i].res = "fail"
        /\ dpc # "idle"
        /\ dguild > g
        /\ digest_sends[i].at < dnow
        /\ config[g] # NoRow
        /\ config[g].deadlines_channel_id # 0
        /\ DigestMatch(g, dnow)
        /\ DigestKey(g, dnow) = digest_sends[i].key
        /\ UpcomingSet(g, dnow) # {}


\* C15: /project create with a due instant not more than 60 seconds after now
\* is answered TooSoon and inserts no project row and no reminder row.
C15_Step ==
  \A g \in Guilds, due \in CmdDues, c \in CmdCustom, e \in BOOLEAN :
    (due <= now + 60 /\ project_create(g, due, c, e)) =>
      reply' = "TooSoon" /\ UNCHANGED store_vars

C15_TooSoonRefused == [][C15_Step]_vars

\* the creation refused last was one with due = now + 60, the largest due
\* instant that is refused
C15_Witness ==
  /\ reply = "TooSoon"
  /\ now + 60 \in CmdDues
  /\ \A due \in CmdDues : due >= now + 60


\* C16: default_offsets(now, due) returns exactly the offsets that the table
\* gives for the lead L = due - now.
C16_Table(L) ==
  IF L >= 3 * 86400 THEN {3 * 86400, 2 * 86400, 86400}
  ELSE IF L >= 2 * 86400 THEN {86400}
  ELSE IF L >= 12 * 3600 THEN {4 * 3600}
  ELSE IF L >= 4 * 3600 THEN {2 * 3600}
  ELSE IF L >= 3600 THEN {3600}
  ELSE IF L >= 1800 THEN {1800}
  ELSE IF L > 600 THEN {600}
  ELSE {IF L - 60 >= 60 THEN L - 60 ELSE 60}

C16_DefaultOffsetsTable ==
  (fn.name = "default_offsets" /\ fn.done) =>
    /\ SeqToSet(fn.out) = C16_Table(fn.arg[2] - fn.arg[1])
    /\ Len(fn.out) = Cardinality(C16_Table(fn.arg[2] - fn.arg[1]))

\* the call with a lead of exactly 10 minutes has returned [540]
C16_Witness ==
  /\ fn.name = "default_offsets"
  /\ fn.done
  /\ fn.arg[2] - fn.arg[1] = 600
  /\ fn.out = <<540>>


\* C17: for a string whose parts all match the duration grammar,
\* parse_offset_str returns a strictly descending list of positive second
\* counts, which are exactly the products value * multiplier of the parts.
C17_AllMatch(str) ==
  \A i \in 1..Len(Split(str, ",")) : DurationMatch(Split(str, ",")[i]).ok

C17_Products(str) ==
  {DurationMatch(Split(str, ",")[i]).val * mult(DurationMatch(Split(str, ",")[i]).unit) :
     i \in 1..Len(Split(str, ","))}

C17_ParsedDescendingPositive ==
  (fn.name = "parse_offset_str" /\ fn.done /\ C17_AllMatch(fn.arg)) =>
    /\ fn.out.ok
    /\ \A i \in 1..Len(fn.out.out) - 1 : fn.out.out[i] > fn.out.out[i + 1]
    /\ \A i \in 1..Len(fn.out.out) : fn.out.out[i] > 0
    /\ SeqToSet(fn.out.out) = C17_Products(fn.arg)


\* C18: an offset string with a part that does not match the duration grammar
\* makes /project create and /project add-reminder answer InvalidDuration (or
\* the refusal of an earlier test) and insert no project row and no reminder row.
C18_HasBadPart(str) ==
  \E i \in 1..Len(Split(str, ",")) : ~DurationMatch(Split(str, ",")[i]).ok

C18_Step ==
  /\ \A g \in Guilds, due \in CmdDues, c \in CmdCustom \ {NoStr}, e \in BOOLEAN :
       (C18_HasBadPart(c) /\ project_create(g, due, c, e)) =>
         reply' \in {"InvalidDuration", "TooSoon"} /\ UNCHANGED store_vars
  /\ \A g \in Guilds, p \in PidSpace, o \in CmdOffsets :
       (C18_HasBadPart(o) /\ project_add_reminder(g, p, o)) =>
         reply' \in {"InvalidDuration", "NotFound"} /\ UNCHANGED store_vars

C18_BadPartPersistsNothing == [][C18_Step]_vars


\* C19: /project create without custom offsets and with a lead L >= 3 days
\* inserts, for the new event, exactly the triggers at due - 3d, due - 2d and
\* due - 1d when L > 3d + 30, and exactly those at due - 2d and due - 1d when
\* 3d <= L <= 3d + 30; each of them is later than now + 30.
C19_Expected(due, t) ==
  IF due - t > 3 * 86400 + 30
  THEN {due - 3 * 86400, due - 2 * 86400, due - 86400}
  ELSE {due - 2 * 86400, due - 86400}

C19_Step ==
  \A g \in Guilds, due \in StoreDues :
    (/\ seq_projects' > seq_projects
     /\ due - now >= 3 * 86400
     /\ project_create(g, due, NoStr, FALSE)) =>
      LET new == (DOMAIN reminders') \ (DOMAIN reminders)
      IN  /\ {reminders'[r].remind_ts : r \in new} = C19_Expected(due, now)
          /\ Cardinality(new) = Cardinality(C19_Expected(due, now))
          /\ \A r \in new : /\ reminders'[r].project_id = seq_projects'
                            /\ reminders'[r].remind_ts > now + 30
                            /\ ~reminders'[r].sent
          /\ DOMAIN projects' = DOMAIN projects \cup {seq_projects'}

C19_ThreeDayDefaults == [][C19_Step]_vars

\* an event created with the defaults holds exactly its three triggers
C19_Witness ==
  \E p \in DOMAIN projects :
    LET mine == {r \in DOMAIN reminders : reminders[r].project_id = p}
        due == projects[p].due_ts
    IN  /\ Cardinality(mine) = 3
        /\ {reminders[r].remind_ts : r \in mine} =
             {due - 3 * 86400, due - 2 * 86400, due - 86400}


\* C20: when /project create finds none of its candidates later than now + 30,
\* it inserts exactly one trigger for the new event, at
\* max(due - 300, now + 60), and none when that instant is not before due.
C20_AllFiltered(c, due, t) ==
  LET offs == OffsetsOf(c, t, due).out
  IN  \A i \in 1..Len(offs) : due - offs[i] <= t + 30

C20_Fallback(due, t) == IF due - 300 >= t + 60 THEN due - 300 ELSE t + 60

C20_Step ==
  \A g \in Guilds, due \in StoreDues, c \in StoreCustom :
    (/\ seq_projects' > seq_projects
     /\ due > now + 60
     /\ project_create(g, due, c, FALSE)
     /\ C20_AllFiltered(c, due, now)) =>
      LET new == (DOMAIN reminders') \ (DOMAIN reminders)
      IN  /\ {reminders'[r].remind_ts : r \in new} =
               (IF C20_Fallback(due, now) < due THEN {C20_Fallback(due, now)} ELSE {})
          /\ Cardinality(new) <= 1
          /\ \A r \in new : reminders'[r].project_id = seq_projects'
                            /\ reminders'[r].remind_ts < due

C20_FallbackTrigger == [][C20_Step]_vars

\* an event due less than 300 seconds after its creation holds one trigger, at
\* now + 60 of its creation, which is none of the candidates of the inputs
C20_Witness ==
  \E p \in DOMAIN projects :
    LET mine == {r \in DOMAIN reminders : reminders[r].project_id = p}
        due == projects[p].due_ts
    IN  /\ reply = "Created"
        /\ Cardinality(mine) = 1
        /\ \A r \in mine : reminders[r].remind_ts = due - 30


\* C21: the rows a poll cycle reads at its instant t are stored triggers that
\* are unsent and have remind_ts in [t - 60, t + 30], and a delivery is begun
\* only for the row a cycle is at: its remind_ts lies in the window of the
\* instant at which that cycle started (so t - 60 <= remind_ts <= t + 30 even
\* when the delivery itself begins later), and the trigger is not marked sent.
C21_Step ==
  /\ \A k \in Runners :
       (rrows'[k] # rrows[k] /\ rrows'[k] # <<>>) =>
         \A i \in 1..Len(rrows'[k]) :
           LET row == rrows'[k][i]
           IN  /\ row.rid \in DOMAIN reminders
               /\ ~reminders[row.rid].sent
               /\ reminders[row.rid].remind_ts = row.remind_ts
               /\ InWindow(row.remind_ts, rnow'[k])
               /\ rnow'[k] = now
  /\ \A r \in RidSpace :
       attempts'[r] > attempts[r] =>
         \E k \in Runners :
           /\ rpc'[k] = "send"
           /\ rrows'[k][ridx'[k]].rid = r
           /\ rrows'[k][ridx'[k]].remind_ts >= rnow'[k] - WindowBack
           /\ rrows'[k][ridx'[k]].remind_ts <= rnow'[k] + WindowAhead
           /\ r \in DOMAIN reminders =>
                /\ ~reminders[r].sent
                /\ reminders[r].remind_ts = rrows'[k][ridx'[k]].remind_ts

C21_OnlyInWindow == [][C21_Step]_vars

\* a cycle is delivering a trigger of its window while the store holds an
\* unsent trigger that fired more than 60 seconds before the cycle's instant:
\* the cycle did not select it and no delivery was begun for it
C21_Witness ==
  \E k \in Runners :
    /\ InFlight(k)
    /\ delivery[rrows[k][ridx[k]].rid] = "pending"
    /\ \E r \in DOMAIN reminders :
         /\ ~reminders[r].sent
         /\ reminders[r].remind_ts < rnow[k] - WindowBack
         /\ r \notin RowIds(k)
         /\ attempts[r] = 0


\* C22: a stored unsent trigger whose remind_ts is more than 60 seconds before
\* the clock, and which no cycle in progress holds among the rows it read, is
\* never selected by a cycle again, no delivery is begun for it and it is never
\* marked sent: it stays as it is until its event is deleted.
C22_Missed(r) ==
  /\ r \in DOMAIN reminders
  /\ ~reminders[r].sent
  /\ reminders[r].remind_ts < now - WindowBack
  /\ \A k \in Runners : r \notin RowIds(k)

C22_Step ==
  \A r \in RidSpace :
    C22_Missed(r) =>
      /\ now' >= now
      /\ \A k \in Runners : r \notin {rrows'[k][i].rid : i \in 1..Len(rrows'[k])}
      /\ attempts'[r] <= attempts[r]
      /\ IF r \in DOMAIN reminders'
         THEN reminders'[r] = reminders[r]
         ELSE reminders[r].project_id \notin DOMAIN projects'

C22_MissedStaysPending == [][C22_Step]_vars

\* no command since the last restart; a cycle of the new process is delivering
\* a trigger of its window, and an unsent trigger that fell due more than 60
\* seconds before the cycle's instant was not selected
C22_Witness ==
  \E k \in Runners, r \in RidSpace :
    /\ reply = "none"
    /\ InFlight(k)
    /\ C22_Missed(r)
    /\ reminders[r].remind_ts < rnow[k] - WindowBack
    /\ attempts[r] = 0


\* C23: a delivery that never returns does not hold the reminder poller for
\* ever: an iteration that is suspended in a delivery comes to its end, and so
\* reaches its remaining rows and lets later iterations start.
C23_PollerGoesOn == \A k \in Runners : InFlight(k) ~> ~InFlight(k)


\* C24: a step of the reminder poller (the start of a cycle, the end of a
\* delivery) inserts and deletes no row, changes of the stored triggers only the
\* sent flag, from false to true, of a row its cycle selected, and leaves the
\* events, the config rows and the digest cache as they are; a step of the
\* digest poller leaves every event, trigger and config row as it is and
\* changes nothing of the reminder poller.
C24_ReminderFrame ==
  /\ UNCHANGED <<projects, seq_projects, seq_reminders, config, dig_vars, digest_sends>>
  /\ DOMAIN reminders' = DOMAIN reminders
  /\ \A r \in DOMAIN reminders :
       \/ reminders'[r] = reminders[r]
       \/ /\ \E k \in Runners : r \in RowIds(k)
          /\ ~reminders[r].sent
          /\ reminders'[r] = [reminders[r] EXCEPT !.sent = TRUE]

C24_DigestFrame ==
  UNCHANGED <<store_vars, config, rem_vars, rem_hist>>

C24_Step ==
  /\ (CycleStart \/ RowDone) => C24_ReminderFrame
  /\ (DigestStart \/ DigestFetched \/ DigestSent) => C24_DigestFrame

C24_PollersDisjoint == [][C24_Step]_vars

\* both pollers have acted: a trigger was delivered and marked sent, a digest
\* was sent and its key is in the digest cache
C24_Witness ==
  /\ \E r \in DOMAIN reminders : reminders[r].sent /\ delivery[r] = "ok"
  /\ \E i \in 1..Len(digest_sends) :
       digest_sends[i].res = "ok" /\ digest_sends[i].key \in digest_cache


\* C25: the digest handed to channel.send for guild g by a cycle with now_utc t
\* lists, each once and in ascending order of due_ts, exactly the stored events
\* of g with t <= due_ts <= t + 7 days, and this list is not empty: no event of
\* another guild is listed and no digest is sent when g has no such event.
C25_Step ==
  Len(digest_sends') > Len(digest_sends) =>
    LET e == digest_sends'[Len(digest_sends')]
        rows == drows'
    IN  /\ rows # <<>>
        /\ {rows[i] : i \in 1..Len(rows)} =
             {p \in DOMAIN projects : /\ projects[p].guild_id = e.guild
                                       /\ projects[p].due_ts >= e.at
                                       /\ projects[p].due_ts <= e.at + 7 * day}
        /\ \A i \in 1..Len(rows), j \in 1..Len(rows) :
             i < j => /\ rows[i] # rows[j]
                      /\ projects[rows[i]].due_ts <= projects[rows[j]].due_ts

C25_DigestListsUpcoming == [][C25_Step]_vars

\* a digest of two events is being sent, the one with the larger id first
\* because it is due earlier, while the store holds a third event that is not
\* listed: one of the other guild inside the 7 days, or one of this guild due
\* before now_utc or more than 7 days after it
C25_Witness ==
  /\ dpc = "send"
  /\ Len(drows) = 2
  /\ drows[1] > drows[2]
  /\ projects[drows[1]].due_ts < projects[drows[2]].due_ts
  /\ \E p \in DOMAIN projects :
       /\ p \notin {drows[1], drows[2]}
       /\ \/ projects[p].guild_id # dguild /\ projects[p].due_ts \in dnow..(dnow + 7 * day)
          \/ projects[p].guild_id = dguild /\ projects[p].due_ts \notin dnow..(dnow + 7 * day)


\* C26: a restart leaves the new process with an empty digest cache, whatever
\* the old process had delivered, while the store and the config rows are kept;
\* and a digest cycle that starts in the matching minute of a guild whose key
\* is not in the cache, with an event of the guild upcoming, adds the key and
\* hands the digest to channel.send (or first fetches the channel): so the
\* digest of a local date that was delivered before the restart goes out again.
C26_Step ==
  /\ RestartAfterDigest =>
       digest_cache' = {} /\ UNCHANGED <<store_vars, config>>
  /\ \A cc \in [Guilds -> BOOLEAN] :
       (/\ DigestCycle(cc)
        /\ config[1] # NoRow
        /\ config[1].deadlines_channel_id # 0
        /\ DigestMatch(1, now)
        /\ DigestKey(1, now) \notin digest_cache
        /\ UpcomingSet(1, now) # {}) =>
         /\ DigestKey(1, now) \in digest_cache'
         /\ dguild' = 1
         /\ IF cc[1]
            THEN /\ dpc' = "send"
                 /\ digest_sends' = Append(digest_sends,
                       [guild |-> 1, key |-> DigestKey(1, now), at |-> now,
                        res |-> "pending"])
            ELSE dpc' = "fetch"

C26_RestartRepeatsDigest == [][C26_Step]_vars

\* no command since the restart, which followed the delivery of the digest of
\* this local date: the new process has delivered the digest of guild 1 for the
\* same date once more, still inside the matching minute
C26_Witness ==
  /\ reply = "none"
  /\ config[1] # NoRow
  /\ DigestMatch(1, now)
  /\ \E i \in 1..Len(digest_sends) :
       /\ digest_sends[i].guild = 1
       /\ digest_sends[i].res = "ok"
       /\ digest_sends[i].key = DigestKey(1, now)


\* C27: an event is inserted only with due_ts > now + 60, for which the
\* fallback max(due_ts - 300, now + 60) is < due_ts; and a /project create
\* that answers with the summary has inserted, with the event, at least one
\* trigger of it, with default offsets and with explicit offsets alike.
C27_Step ==
  seq_projects' > seq_projects =>
    LET p == seq_projects'
        due == projects'[p].due_ts
    IN  /\ due > now + 60
        /\ Max(due - 300, now + 60) < due
        /\ reply' = "Created" =>
             \E r \in (DOMAIN reminders') \ (DOMAIN reminders) :
               reminders'[r].project_id = p

C27_CreatedHasTrigger == [][C27_Step]_vars

\* an event was just created whose candidates were all filtered out and whose
\* only trigger is the fallback at its floor now + 60, less than 300 seconds
\* before the due instant
C27_Witness ==
  /\ reply = "Created"
  /\ seq_projects \in DOMAIN projects
  /\ \E r \in DOMAIN reminders :
       /\ reminders[r].project_id = seq_projects
       /\ reminders[r].remind_ts = now + FallbackDelay
       /\ reminders[r].remind_ts > projects[seq_projects].due_ts - FallbackLead
       /\ \A q \in DOMAIN reminders : reminders[q].project_id = seq_projects => q = r


\* C28: a delivery is begun only for a row whose event is stored at that
\* moment: no reminder goes out for an event that /project delete has removed,
\* also when the delete ran while the cycle was suspended in an earlier row.
C28_Step ==
  \A r \in RidSpace :
    attempts'[r] > attempts[r] =>
      \E k \in Runners :
        /\ rpc'[k] = "send"
        /\ rrows'[k][ridx'[k]].rid = r
        /\ rrows'[k][ridx'[k]].project_id \in DOMAIN projects

C28_NoDeliveryAfterDelete == [][C28_Step]_vars


\* C29: a cycle in the matching minute of a guild that has no event due in the
\* next 7 days adds the key (guild, local date) all the same and sends nothing;
\* and while a key is in the digest cache without a digest sent under it, no
\* digest is handed to channel.send under that key by any later cycle of the
\* process, whatever events are created and whatever digest time is configured
\* in between (only the cycle that added the key and is still fetching the
\* channel for it may go on to send).
C29_Quiet(key) ==
  /\ key \in digest_cache
  /\ \A i \in 1..Len(digest_sends) : digest_sends[i].key # key
  /\ ~(dpc # "idle" /\ dkey = key)

C29_Step ==
  /\ \A cc \in LateCached :
       (/\ DigestCycle(cc)
        /\ config[1] # NoRow
        /\ config[1].deadlines_channel_id # 0
        /\ DigestMatch(1, now)
        /\ DigestKey(1, now) \notin digest_cache
        /\ UpcomingSet(1, now) = {}) =>
         /\ DigestKey(1, now) \in digest_cache'
         /\ dguild' # 1
         /\ \A i \in 1..Len(digest_sends') : digest_sends'[i].key # DigestKey(1, now)
  /\ \A key \in digest_cache :
       C29_Quiet(key) =>
         /\ key \in digest_cache'
         /\ \A i \in 1..Len(digest_sends') : digest_sends'[i].key # key

C29_EmptyDigestConsumesDate == [][C29_Step]_vars

\* the key of guild 1 is in the cache and no digest was sent for guild 1: the
\* query of the cycle that added the key was empty; an event of guild 1 has
\* been created since, the digest time of guild 1 now is a
\* minute that the cycle in progress matches, and that cycle has gone past
\* guild 1 without a send and without a fetch: it is at guild 2
C29_Witness ==
  /\ dpc # "idle"
  /\ dguild = 2
  /\ config[1] # NoRow
  /\ config[1].deadlines_channel_id # 0
  /\ config[1].deadlines_digest_time = Str1601
  /\ DigestMatch(1, dnow)
  /\ UpcomingSet(1, dnow) # {}
  /\ DigestKey(1, dnow) \in digest_cache
  /\ \A i \in 1..Len(digest_sends) : digest_sends[i].guild # 1

====
